---- MODULE Spec2Model ----
(***************************************************************************)
(* neqo-crypto/src/hkdf.rs: the HKDF layer of the TLS 1.3 key schedule.    *)
(*                                                                         *)
(* The four public functions (generate_key, import_key, extract,           *)
(* expand_label) are stateless; all state lives in the cryptographic       *)
(* provider (NSS).  The model therefore keeps the provider's key store,    *)
(* and, for the most recent invocation, its arguments, its result and the  *)
(* ordered list of provider calls it made.                                 *)
(***************************************************************************)
EXTENDS Integers, Sequences, FiniteSets, TLC

(* ---------------------------------------------------------------------- *)
(* Bounds of the model                                                     *)
(* ---------------------------------------------------------------------- *)
\* number of key objects the provider can hold at once
MaxHandles == 3
\* number of distinct outputs of the random generator
MaxSeed == 2
\* bits of c_uint in the model.  c_uint has 32 bits and usize 64; the model
\* keeps usize wider than c_uint, at a width that fits TLC's 32-bit integers.
CUintBits == 16

(* ---------------------------------------------------------------------- *)
(* Constants of the program                                                *)
(* ---------------------------------------------------------------------- *)
TLS_VERSION_1_3 == "TLS_VERSION_1_3"
\* a Version value that is not TLS_VERSION_1_3
TLS_VERSION_1_2 == "TLS_VERSION_1_2"
TLS_AES_128_GCM_SHA256 == "TLS_AES_128_GCM_SHA256"
TLS_AES_256_GCM_SHA384 == "TLS_AES_256_GCM_SHA384"
TLS_CHACHA20_POLY1305_SHA256 == "TLS_CHACHA20_POLY1305_SHA256"
\* a Cipher value that key_size does not list
TLS_OTHER_CIPHER == "TLS_OTHER_CIPHER"

Versions == {TLS_VERSION_1_3, TLS_VERSION_1_2}
Ciphers == {TLS_AES_128_GCM_SHA256, TLS_AES_256_GCM_SHA384,
            TLS_CHACHA20_POLY1305_SHA256, TLS_OTHER_CIPHER}

MAX_KEY_SIZE == 48
\* largest value of std::os::raw::c_uint
C_UINT_MAX == (2 ^ CUintBits) - 1

(* ---------------------------------------------------------------------- *)
(* Results (Res<T>)                                                        *)
(* ---------------------------------------------------------------------- *)
\* the null pointer (null_mut())
NULL == 0
Handles == 1 .. MaxHandles

Ok(v) == [ok |-> TRUE, err |-> "", val |-> v]
Err(e) == [ok |-> FALSE, err |-> e, val |-> 0]

(* ---------------------------------------------------------------------- *)
(* Byte slices: a slice is a pointer into a buffer and a length.           *)
(* ptr names the buffer (a pair <<origin, id>>), off the first byte of the *)
(* slice in it, len the number of bytes.                                   *)
(* ---------------------------------------------------------------------- *)
Slice(p, o, n) == [ptr |-> p, off |-> o, len |-> n]
NoSlice == Slice(<<"none", 0>>, 0, 0)

\* byte i (from 0) of buffer p
ByteAt(p, i) == ((p[2] * 37) + (i * 11) + 5) % 256
\* the bytes a slice covers
Bytes(s) == [i \in 1 .. s.len |-> ByteAt(s.ptr, s.off + i - 1)]

\* &a[0..n], and the same slice taken without the upper limit
SliceWhole(a, n) == a
SliceTo(a, n) == Slice(a.ptr, a.off, n)

\* c_uint::try_from(n), and the wrapping conversion (n as c_uint)
CUintTruncate(n) == Ok(n % (C_UINT_MAX + 1))
c_uint_try_from(n) == IF n <= C_UINT_MAX THEN Ok(n) ELSE Err("BoundsError")

(* ---------------------------------------------------------------------- *)
(* key_size                                                                *)
(* ---------------------------------------------------------------------- *)
\* key_size with the two checks in the other order
KeySizeCipherFirst(version, cipher) ==
    IF cipher \notin {TLS_AES_128_GCM_SHA256, TLS_CHACHA20_POLY1305_SHA256,
                      TLS_AES_256_GCM_SHA384}
    THEN Err("UnsupportedCipher")
    ELSE IF version # TLS_VERSION_1_3 THEN Err("UnsupportedVersion")
    ELSE IF cipher = TLS_AES_256_GCM_SHA384 THEN Ok(48) ELSE Ok(32)

key_size(version, cipher) ==
    IF version # TLS_VERSION_1_3 THEN Err("UnsupportedVersion")
    ELSE IF cipher \in {TLS_AES_128_GCM_SHA256, TLS_CHACHA20_POLY1305_SHA256}
         THEN Ok(32)
    ELSE IF cipher = TLS_AES_256_GCM_SHA384 THEN Ok(48)
    ELSE Err("UnsupportedCipher")

(* ---------------------------------------------------------------------- *)
(* The provider: key objects, and the record of a call made to it          *)
(* ---------------------------------------------------------------------- *)
\* a key object, known to the model only by how the provider made it: imported
\* from bytes, or derived by HKDF
Material(k) == [kind |-> k]
NoKey == Material("none")

Live(store) == {h \in Handles : store[h] # NoKey}
Free(store) == Handles \ Live(store)
\* the key objects a provider call may hand out next: the first free one, or
\* none when the call fails
NextOut(store) ==
    {NULL} \cup {h \in Free(store) : \A g \in Free(store) : h <= g}

\* Option<&SymKey>
None == [some |-> FALSE, val |-> NULL]
Some(h) == [some |-> TRUE, val |-> h]
\* salt.map_or(null_mut(), |s| **s), and the same with its two cases exchanged
MapOrSwapped(default, s) == IF s.some THEN default ELSE s.val
map_or(default, s) == IF s.some THEN s.val ELSE default

PCall(a) ==
    [api |-> a, n |-> 0, item |-> NoSlice, version |-> "", cipher |-> "",
     salt |-> NULL, key |-> NULL, hash |-> NoSlice, label |-> NoSlice]

RandomCall(count, out) == [PCall("random") EXCEPT !.n = count, !.item = out]
SlotCall == PCall("Slot::internal")
ImportCall(item) == [PCall("PK11_ImportDataKey") EXCEPT !.item = item]
ExtractCall(version, cipher, salt_ptr, ikm) ==
    [PCall("SSL_HkdfExtract") EXCEPT !.version = version, !.cipher = cipher,
                                      !.salt = salt_ptr, !.key = ikm]
ExpandCall(version, cipher, prk, hash, label) ==
    [PCall("SSL_HkdfExpandLabel") EXCEPT !.version = version, !.cipher = cipher,
                                          !.key = prk, !.hash = hash,
                                          !.label = label]
FreeCall(h) == [PCall("PK11_FreeSymKey") EXCEPT !.key = h]

\* random::<N>(): the array the generator fills, named by what it drew
random(count, seed) == Slice(<<"random", seed>>, 0, count)

\* Item::wrap(buf): a SECItem pointing at buf, its length a c_uint
ItemWrap(buf) ==
    LET n == c_uint_try_from(buf.len)
    IN  IF n.ok THEN [ok |-> TRUE, err |-> "", val |-> Slice(buf.ptr, buf.off, n.val)]
        ELSE [ok |-> FALSE, err |-> n.err, val |-> NoSlice]

\* SymKey::from_ptr(ptr)
SymKeyFromPtr(ptr) == IF ptr = NULL THEN Err("ProviderFailure") ELSE Ok(ptr)

\* the hash output length the provider derives for a suite (0: unknown suite)
HashLen(cipher) ==
    IF cipher \in {TLS_AES_128_GCM_SHA256, TLS_CHACHA20_POLY1305_SHA256} THEN 32
    ELSE IF cipher = TLS_AES_256_GCM_SHA384 THEN 48
    ELSE 0

\* whether SSL_HkdfExtract / SSL_HkdfExpandLabel know the (version, suite)
ProviderAccepts(version, cipher) ==
    version = TLS_VERSION_1_3 /\ HashLen(cipher) > 0

\* the provider's store after it created key object ptr (NULL: it created none)
ProviderStore(store, ptr, m) ==
    IF ptr = NULL THEN store ELSE [store EXCEPT ![ptr] = m]

\* what an invocation leaves behind: its result, the provider calls it made in
\* order, and the provider's store
Out(r, c, k) == [ret |-> r, calls |-> c, keys |-> k]

\* The provider's part of an invocation is env: slot_ok, whether the internal
\* slot is available; out, the key object a successful provider call would
\* return (NULL: the call fails); seed, what the random generator draws.
Env(s, o, d) == [slot_ok |-> s, out |-> o, seed |-> d]

(* ---------------------------------------------------------------------- *)
(* import_key                                                              *)
(* ---------------------------------------------------------------------- *)
\* import_key cutting the buffer to the largest key size
ImportKeyClamped(version, buf, env, store) ==
    IF version # TLS_VERSION_1_3 THEN Out(Err("UnsupportedVersion"), <<>>, store)
    ELSE IF ~env.slot_ok THEN Out(Err("ProviderFailure"), <<SlotCall>>, store)
    ELSE LET cut == IF buf.len > MAX_KEY_SIZE THEN SliceTo(buf, MAX_KEY_SIZE) ELSE buf
             item == ItemWrap(cut)
         IN  IF ~item.ok THEN Out(Err(item.err), <<SlotCall>>, store)
             ELSE Out(SymKeyFromPtr(env.out),
                      <<SlotCall, ImportCall(item.val)>>,
                      ProviderStore(store, env.out, Material("imported")))

import_key(version, buf, env, store) ==
    IF version # TLS_VERSION_1_3 THEN Out(Err("UnsupportedVersion"), <<>>, store)
    ELSE IF ~env.slot_ok THEN Out(Err("ProviderFailure"), <<SlotCall>>, store)
    ELSE LET item == ItemWrap(buf)
         IN  IF ~item.ok THEN Out(Err(item.err), <<SlotCall>>, store)
             ELSE Out(SymKeyFromPtr(env.out),
                      <<SlotCall, ImportCall(item.val)>>,
                      ProviderStore(store, env.out, Material("imported")))

(* ---------------------------------------------------------------------- *)
(* generate_key                                                            *)
(* ---------------------------------------------------------------------- *)
\* generate_key computing the size first and drawing only that many bytes
GenerateKeySizeFirst(version, cipher, env, store) ==
    LET size == key_size(version, cipher)
    IN  IF ~size.ok THEN Out(Err(size.err), <<>>, store)
        ELSE LET r == random(size.val, env.seed)
                 imp == import_key(version, SliceTo(r, size.val), env, store)
             IN  Out(imp.ret, <<RandomCall(size.val, r)>> \o imp.calls, imp.keys)

\* generate_key drawing key_size bytes where key_size is known
GenerateKeyDrawsKeySize(version, cipher, env, store) ==
    LET size == key_size(version, cipher)
        r == random(IF size.ok THEN size.val ELSE MAX_KEY_SIZE, env.seed)
    IN  IF ~size.ok THEN Out(Err(size.err), <<RandomCall(r.len, r)>>, store)
        ELSE LET imp == import_key(version, SliceTo(r, size.val), env, store)
             IN  Out(imp.ret, <<RandomCall(r.len, r)>> \o imp.calls, imp.keys)

generate_key(version, cipher, env, store) ==
    LET r == random(MAX_KEY_SIZE, env.seed)
        size == key_size(version, cipher)
    IN  IF ~size.ok THEN Out(Err(size.err), <<RandomCall(MAX_KEY_SIZE, r)>>, store)
        ELSE LET imp == import_key(version, SliceTo(r, size.val), env, store)
             IN  Out(imp.ret, <<RandomCall(MAX_KEY_SIZE, r)>> \o imp.calls, imp.keys)

(* ---------------------------------------------------------------------- *)
(* extract                                                                 *)
(* ---------------------------------------------------------------------- *)
\* extract handing back the input key instead of the provider's output
ExtractReturnsIkm(version, cipher, salt, ikm, env, store) ==
    LET salt_ptr == map_or(NULL, salt)
        prk == IF ProviderAccepts(version, cipher) THEN env.out ELSE NULL
        c == <<ExtractCall(version, cipher, salt_ptr, ikm)>>
    IN  IF prk = NULL THEN Out(Err("ProviderFailure"), c, store)
        ELSE Out(SymKeyFromPtr(ikm), c,
                 ProviderStore(store, prk, Material("derived")))

\* extract taking its input key by value, so that it is released on return
ExtractConsumesIkm(version, cipher, salt, ikm, env, store) ==
    LET salt_ptr == map_or(NULL, salt)
        prk == IF ProviderAccepts(version, cipher) THEN env.out ELSE NULL
        c == <<ExtractCall(version, cipher, salt_ptr, ikm)>>
        dropped == [store EXCEPT ![ikm] = NoKey]
    IN  IF prk = NULL THEN Out(Err("ProviderFailure"), c, dropped)
        ELSE Out(SymKeyFromPtr(prk), c,
                 ProviderStore(dropped, prk, Material("derived")))

\* extract with a version check of its own in front
ExtractChecksVersion(version, cipher, salt, ikm, env, store) ==
    LET salt_ptr == map_or(NULL, salt)
        prk == IF ProviderAccepts(version, cipher) THEN env.out ELSE NULL
        c == <<ExtractCall(version, cipher, salt_ptr, ikm)>>
    IN  IF version # TLS_VERSION_1_3 THEN Out(Err("UnsupportedVersion"), <<>>, store)
        ELSE IF prk = NULL THEN Out(Err("ProviderFailure"), c, store)
        ELSE Out(SymKeyFromPtr(prk), c,
                 ProviderStore(store, prk, Material("derived")))

extract(version, cipher, salt, ikm, env, store) ==
    LET salt_ptr == map_or(NULL, salt)
        \* SSL_HkdfExtract(version, cipher, salt_ptr, **ikm, &raw mut prk)
        prk == IF ProviderAccepts(version, cipher) THEN env.out ELSE NULL
        c == <<ExtractCall(version, cipher, salt_ptr, ikm)>>
    IN  IF prk = NULL THEN Out(Err("ProviderFailure"), c, store)
        ELSE Out(SymKeyFromPtr(prk), c,
                 ProviderStore(store, prk, Material("derived")))

(* ---------------------------------------------------------------------- *)
(* expand_label                                                            *)
(* ---------------------------------------------------------------------- *)
expand_label(version, cipher, prk, handshake_hash, label, env, store) ==
    LET hash_len == c_uint_try_from(handshake_hash.len)
        label_len == c_uint_try_from(label.len)
        \* SSL_HkdfExpandLabel(version, cipher, **prk, ..., &raw mut secret)
        secret == IF ProviderAccepts(version, cipher) THEN env.out ELSE NULL
    IN  IF ~hash_len.ok THEN Out(Err(hash_len.err), <<>>, store)
        ELSE IF ~label_len.ok THEN Out(Err(label_len.err), <<>>, store)
        ELSE LET c == <<ExpandCall(version, cipher, prk,
                            Slice(handshake_hash.ptr, handshake_hash.off, hash_len.val),
                            Slice(label.ptr, label.off, label_len.val))>>
             IN  IF secret = NULL THEN Out(Err("ProviderFailure"), c, store)
                 ELSE Out(SymKeyFromPtr(secret), c,
                          ProviderStore(store, secret,
                                        Material("derived")))

(* ---------------------------------------------------------------------- *)
(* The state                                                               *)
(* ---------------------------------------------------------------------- *)
VARIABLES
    keys,    \* the provider's store: handle -> key object (NoKey: not live)
    call,    \* the most recent invocation: function and arguments
    ret,     \* its result
    trace,   \* the provider calls it made, in order
    pre,     \* the provider's store when it was entered
    chain    \* the caller's place in the chain generate_key -> extract ->
             \* expand_label: the handles it got so far

vars == <<keys, call, ret, trace, pre, chain>>

Call(f) ==
    [fn |-> f, version |-> "", cipher |-> "", buf |-> NoSlice, salt |-> None,
     key |-> NULL, hash |-> NoSlice, label |-> NoSlice]

\* the arguments callers pass
KeyBufs == {Slice(<<"key", 1>>, 0, n) : n \in {0, MAX_KEY_SIZE + 1, C_UINT_MAX + 1}}
HashBufs == {Slice(<<"hash", 1>>, 0, n) : n \in {0, 32, C_UINT_MAX + 1}}
\* "c hs traffic" is 12 bytes
LabelBufs == {Slice(<<"label", 1>>, 0, n) : n \in {12, C_UINT_MAX + 1}}
Seeds == 1 .. MaxSeed

Envs == {Env(s, o, d) : s \in BOOLEAN, o \in NextOut(keys), d \in Seeds}
\* extract and expand_label neither draw random bytes nor acquire the slot
DeriveEnvs == {Env(TRUE, o, 1) : o \in NextOut(keys)}
\* import_key draws no random bytes
ImportEnvs == {Env(s, o, 1) : s \in BOOLEAN, o \in NextOut(keys)}

Init ==
    /\ keys = [h \in Handles |-> NoKey]
    /\ call = Call("none")
    /\ ret = Ok(NULL)
    /\ trace = <<>>
    /\ pre = [h \in Handles |-> NoKey]
    /\ chain = <<>>

\* The chain of the end-to-end scenario: generate_key(TLS1_3, AES_128_GCM_SHA256)
\* gives A, extract(.., None, A) gives B, expand_label(.., B, empty,
\* "c hs traffic") gives C.  Any other invocation, or a failure, ends it.
ChainStep(c, o) ==
    IF ~o.ret.ok \/ c.version # TLS_VERSION_1_3 \/ c.cipher # TLS_AES_128_GCM_SHA256
    THEN <<>>
    ELSE IF c.fn = "generate_key" THEN <<o.ret.val>>
    ELSE IF /\ c.fn = "extract" /\ Len(chain) = 1
            /\ c.salt = None /\ c.key = chain[1]
         THEN <<chain[1], o.ret.val>>
    ELSE IF /\ c.fn = "expand_label" /\ Len(chain) = 2
            /\ c.key = chain[2] /\ c.hash.len = 0 /\ c.label.len = 12
         THEN <<chain[1], chain[2], o.ret.val>>
    ELSE <<>>

Finish(c, o) ==
    /\ call' = c
    /\ chain' = ChainStep(c, o)
    /\ ret' = o.ret
    /\ trace' = o.calls
    /\ keys' = o.keys
    /\ pre' = keys

GenerateKey ==
    \E version \in Versions, cipher \in Ciphers, env \in Envs :
        Finish([Call("generate_key") EXCEPT !.version = version, !.cipher = cipher],
               generate_key(version, cipher, env, keys))

ImportKey ==
    \E version \in Versions, buf \in KeyBufs, env \in ImportEnvs :
        Finish([Call("import_key") EXCEPT !.version = version, !.buf = buf],
               import_key(version, buf, env, keys))

Extract ==
    \E version \in Versions, cipher \in Ciphers, ikm \in Live(keys),
       salt \in {None} \cup {Some(h) : h \in Live(keys)}, env \in DeriveEnvs :
        Finish([Call("extract") EXCEPT !.version = version, !.cipher = cipher,
                                        !.salt = salt, !.key = ikm],
               extract(version, cipher, salt, ikm, env, keys))

ExpandLabel ==
    \E version \in Versions, cipher \in Ciphers, prk \in Live(keys),
       hash \in HashBufs, label \in LabelBufs, env \in DeriveEnvs :
        Finish([Call("expand_label") EXCEPT !.version = version, !.cipher = cipher,
                                             !.key = prk, !.hash = hash,
                                             !.label = label],
               expand_label(version, cipher, prk, hash, label, env, keys))

\* a SymKey goes out of scope
Drop ==
    \E h \in Live(keys) :
        Finish([Call("drop") EXCEPT !.key = h],
               Out(Ok(NULL), <<FreeCall(h)>>, [keys EXCEPT ![h] = NoKey]))

Next == GenerateKey \/ ImportKey \/ Extract \/ ExpandLabel \/ Drop

Spec == Init /\ [][Next]_vars


(* ---------------------------------------------------------------------- *)
(* Properties                                                              *)
(* ---------------------------------------------------------------------- *)
Public == {"generate_key", "import_key", "extract", "expand_label"}
Supported == {TLS_AES_128_GCM_SHA256, TLS_CHACHA20_POLY1305_SHA256,
              TLS_AES_256_GCM_SHA384}

\* the positions of the calls to provider function a in the trace
CallsTo(a) == {i \in DOMAIN trace : trace[i].api = a}
\* the handles the invocation was given
Inputs ==
    (IF call.fn \in {"extract", "expand_label"} THEN {call.key} ELSE {})
    \cup (IF call.fn = "extract" /\ call.salt.some THEN {call.salt.val} ELSE {})
Fits(n) == n <= C_UINT_MAX

C4_KeySizeTable ==
    /\ \A v \in Versions, c \in Ciphers :
           LET r == key_size(v, c)
           IN  /\ v # TLS_VERSION_1_3 => r = Err("UnsupportedVersion")
               /\ (v = TLS_VERSION_1_3 /\ c = TLS_AES_128_GCM_SHA256) => r = Ok(32)
               /\ (v = TLS_VERSION_1_3 /\ c = TLS_CHACHA20_POLY1305_SHA256) => r = Ok(32)
               /\ (v = TLS_VERSION_1_3 /\ c = TLS_AES_256_GCM_SHA384) => r = Ok(48)
               /\ (v = TLS_VERSION_1_3 /\ c \notin Supported) => r = Err("UnsupportedCipher")
               /\ r.ok => (r.val \in {32, 48} /\ r.val <= MAX_KEY_SIZE)
    /\ call.fn = "generate_key" =>
           /\ call.version # TLS_VERSION_1_3 => ret = Err("UnsupportedVersion")
           /\ (call.version = TLS_VERSION_1_3 /\ call.cipher \notin Supported)
                  => ret = Err("UnsupportedCipher")
           /\ (call.version = TLS_VERSION_1_3 /\ call.cipher \in Supported)
                  => ret.err \notin {"UnsupportedVersion", "UnsupportedCipher"}

C4_Witness ==
    /\ call.fn = "generate_key"
    /\ call.version = TLS_VERSION_1_2 /\ call.cipher = TLS_OTHER_CIPHER
    /\ ret = Err("UnsupportedVersion")

\* C5 (as stated): when extract is called with no salt, the salt argument handed
\* to SSL_HkdfExtract is never the null pointer.
C5_AbsentSaltNotNull ==
    (call.fn = "extract" /\ ~call.salt.some)
        => \A i \in CallsTo("SSL_HkdfExtract") : trace[i].salt # NULL

\* C5 (amended): when extract is called with no salt, the salt argument handed
\* to SSL_HkdfExtract is the null pointer, which is how the provider is told
\* that there is no salt, and never the handle of a key object; with a salt,
\* the argument is that salt's handle.
C5_AbsentSaltIsNull ==
    call.fn = "extract" =>
        /\ CallsTo("SSL_HkdfExtract") = {1}
        /\ ~call.salt.some => (trace[1].salt = NULL /\ trace[1].salt \notin Handles)
        /\ call.salt.some => trace[1].salt = call.salt.val
        /\ trace[1].key = call.key

C5_Witness ==
    /\ call.fn = "extract" /\ call.salt = None
    /\ trace[1].api = "SSL_HkdfExtract" /\ trace[1].salt = NULL
    /\ ret.ok

\* C6: expand_label with a handshake hash or a label longer than c_uint can
\* hold returns a bounds error without calling SSL_HkdfExpandLabel, whichever
\* of the two is too long; when both fit, SSL_HkdfExpandLabel is called exactly
\* once, with the hash bytes and the label bytes as given.
C6_ExpandLabelBounds ==
    call.fn = "expand_label" =>
        IF Fits(call.hash.len) /\ Fits(call.label.len)
        THEN /\ Len(trace) = 1
             /\ trace[1] = ExpandCall(call.version, call.cipher, call.key,
                                      call.hash, call.label)
        ELSE /\ ret = Err("BoundsError")
             /\ trace = <<>>
             /\ keys = pre

C6_Witness ==
    /\ call.fn = "expand_label"
    /\ Fits(call.hash.len) /\ ~Fits(call.label.len)
    /\ ret = Err("BoundsError") /\ trace = <<>>

\* C7 (as stated): import_key checks the version first (UnsupportedVersion, no
\* slot, no import); with TLS 1.3 it passes the caller's buffer to the provider
\* import unchanged, for every buffer length, and its result is the provider's
\* handle or the provider's failure.
C7_ImportVerbatimAnyLength ==
    call.fn = "import_key" =>
        IF call.version # TLS_VERSION_1_3
        THEN ret = Err("UnsupportedVersion") /\ trace = <<>>
        ELSE /\ CallsTo("Slot::internal") = {1}
             /\ Len(trace) = 2 =>
                    /\ trace[2] = ImportCall(call.buf)
                    /\ ret \in {Err("ProviderFailure")} \cup {Ok(h) : h \in Handles}
             /\ Len(trace) = 1 => ret = Err("ProviderFailure")

\* C7 (amended): import_key checks the version first (UnsupportedVersion, no
\* slot, no import); with TLS 1.3 it acquires the slot and passes the caller's
\* buffer to the provider import unchanged in content and length, for every
\* buffer length that c_uint can hold (0 and lengths above 48 included), and
\* its result is then the provider's handle or the provider's failure; a buffer
\* longer than c_uint can hold is refused with a bounds error before the
\* provider import is called.
C7_ImportVerbatim ==
    call.fn = "import_key" =>
        IF call.version # TLS_VERSION_1_3
        THEN ret = Err("UnsupportedVersion") /\ trace = <<>> /\ keys = pre
        ELSE IF Fits(call.buf.len)
        THEN \/ /\ trace = <<SlotCall>>
                /\ ret = Err("ProviderFailure")
             \/ /\ trace = <<SlotCall, ImportCall(call.buf)>>
                /\ ret \in {Err("ProviderFailure")} \cup {Ok(h) : h \in Handles}
        ELSE /\ trace = <<SlotCall>>
             /\ ret \in {Err("ProviderFailure"), Err("BoundsError")}
             /\ keys = pre

C7_Witness ==
    /\ call.fn = "import_key" /\ call.version = TLS_VERSION_1_3
    /\ call.buf.len = MAX_KEY_SIZE + 1
    /\ Len(trace) = 2 /\ trace[2].item.len = MAX_KEY_SIZE + 1
    /\ ret.ok

\* C8: every handle a successful generate_key, import_key, extract or
\* expand_label returns is newly created: it is none of the handles passed in
\* and none of the handles live when the call was made; a completed chain
\* generate_key -> A, extract(None, A) -> B, expand_label(B, empty,
\* "c hs traffic") -> C has A, B, C pairwise distinct and live.
C8_FreshHandles ==
    /\ (call.fn \in Public /\ ret.ok) =>
           /\ ret.val \in Handles
           /\ ret.val \notin Inputs
           /\ ret.val \notin Live(pre)
           /\ ret.val \in Live(keys)
    /\ \A i, j \in DOMAIN chain :
           /\ chain[i] \in Live(keys)
           /\ i # j => chain[i] # chain[j]

C8_Witness ==
    /\ Len(chain) = 3
    /\ call.fn = "expand_label" /\ ret.ok /\ ret.val = chain[3]
    /\ Cardinality({chain[1], chain[2], chain[3]}) = 3

\* C9: for a supported pair, the buffer generate_key imports has length
\* key_size(version, cipher) and holds the leading key_size bytes of the random
\* bytes drawn in that call, and it is imported the way import_key imports:
\* slot first, then the provider import.
C9_ImportsLeadingRandomBytes ==
    (call.fn = "generate_key" /\ key_size(call.version, call.cipher).ok) =>
        LET size == key_size(call.version, call.cipher).val
        IN  /\ trace[1].api = "random"
            /\ CallsTo("PK11_ImportDataKey") \subseteq {3}
            /\ CallsTo("PK11_ImportDataKey") = {3} =>
                   /\ trace[2] = SlotCall
                   /\ trace[3].item.len = size
                   /\ trace[3].item.ptr = trace[1].item.ptr
                   /\ Bytes(trace[3].item) = SubSeq(Bytes(trace[1].item), 1, size)
            /\ trace = <<trace[1]>>
                       \o import_key(call.version, SliceTo(trace[1].item, size),
                                     Env(Len(trace) > 2, ret.val, 1), pre).calls

C9_Witness ==
    /\ call.fn = "generate_key" /\ call.cipher = TLS_AES_128_GCM_SHA256
    /\ ret.ok
    /\ Len(trace) = 3 /\ trace[3].api = "PK11_ImportDataKey"
    /\ trace[3].item.len = 32 /\ trace[1].item.len = 48

\* C10: extract and expand_label leave their input handles live and unchanged,
\* on success and on failure; the only change to the live handles is one new
\* handle on success and none on failure.
C10_InputsUnchanged ==
    call.fn \in {"extract", "expand_label"} =>
        /\ \A h \in Live(pre) : keys[h] = pre[h]
        /\ Inputs \subseteq Live(keys)
        /\ ret.ok => (Live(keys) = Live(pre) \cup {ret.val} /\ ret.val \notin Live(pre))
        /\ ~ret.ok => keys = pre

C10_Witness ==
    /\ call.fn = "extract" /\ call.salt.some /\ call.salt.val = call.key
    /\ ret.ok
    /\ keys[call.key] = pre[call.key] /\ call.key \in Live(keys)

====
